---------------------------- MODULE Spec2Model ----------------------------
(* Model of the emotion-dataset MCP server (src/server.py): the lazily      *)
(* loaded module-level DATASET and the four tool coroutines that read it.   *)
(*                                                                          *)
(* Scheduling: the four tools are `async def` coroutines whose bodies       *)
(* contain no `await`, and _load_dataset is an ordinary function, so on the *)
(* asyncio event loop each tool body runs from its first line to its        *)
(* return without any other coroutine running in between.  Each tool is     *)
(* therefore one action.  Several invocations may be pending on the loop    *)
(* at the same time (pc = "pending"); the loop picks them in any order.     *)
(*                                                                          *)
(* Strings are sequences of one-character strings.  A percentage is kept in *)
(* hundredths (50.0 is 5000), which is exact for round(x, 2).               *)
EXTENDS Integers, Sequences, FiniteSets, TLC

VARIABLES
    DATASET,   \* the module global (server.py:17): the cached table handle
    pc,        \* per invocation slot: "idle", "pending" (scheduled), "done"
    req,       \* per slot: the raw arguments the host passed
    params,    \* per slot: the validated input model handed to the tool
    dataset,   \* per slot: the tool's local `dataset` (what _load_dataset returned)
    result,    \* per slot: what the tool returned (or the validation failure)
    attempt,   \* per slot: what the tool's call of load_dataset did: "none", "ok", "failed"
    first_time, \* per slot: DATASET was None when the invocation was scheduled
    loads      \* number of calls of load_dataset that completed successfully

vars == <<DATASET, pc, req, params, dataset, result, attempt, first_time, loads>>

-----------------------------------------------------------------------------
(* Bounds of the model *)

\* Longest table the data source yields in the one-invocation-at-a-time specifications.
MaxRows == 2

\* Number of invocation slots (coroutines that can be pending at once) in Spec.
NumTasks == 2

\* Longest table the data source yields in the concurrent specification.
ConcRows == 1

-----------------------------------------------------------------------------
(* Program constants: the Field constraints of the input models *)

MinN == 1
MaxN == 100
MinQueryLen == 1
MaxQueryLen == 200
MinLimit == 1
MaxLimit == 100

-----------------------------------------------------------------------------
(* Label mapping *)

EMOTION_LABELS ==
    0 :> "sadness" @@ 1 :> "joy" @@ 2 :> "love" @@
    3 :> "anger" @@ 4 :> "fear" @@ 5 :> "surprise"

\* The members of the EmotionType enum.
EmotionType == {"sadness", "joy", "love", "anger", "fear", "surprise"}

\* The dict's keys in insertion order.
LabelKeys == <<0, 1, 2, 3, 4, 5>>

\* The letters of each emotion name (a = 1 .. z = 26): what str comparison reads.
NameLetters ==
    [sadness  |-> <<19, 1, 4, 14, 5, 19, 19>>,
     joy      |-> <<10, 15, 25>>,
     love     |-> <<12, 15, 22, 5>>,
     anger    |-> <<1, 14, 7, 5, 18>>,
     fear     |-> <<6, 5, 1, 18>>,
     surprise |-> <<19, 21, 18, 16, 18, 9, 19, 5>>]

-----------------------------------------------------------------------------
(* Strings *)

\* str.lower() on one character of the model's alphabet.
LowerChar(c) == IF c = "A" THEN "a" ELSE IF c = "B" THEN "b" ELSE c

\* str.lower()
Lower(s) == [i \in 1..Len(s) |-> LowerChar(s[i])]

RECURSIVE LStrip(_)
LStrip(s) == IF s # <<>> /\ Head(s) = " " THEN LStrip(Tail(s)) ELSE s

RECURSIVE RStrip(_)
RStrip(s) ==
    IF s # <<>> /\ s[Len(s)] = " " THEN RStrip(SubSeq(s, 1, Len(s) - 1)) ELSE s

\* str_strip_whitespace=True: pydantic strips the string before the length checks.
Strip(s) == RStrip(LStrip(s))

\* The `in` operator on two strings: q occurs in s as a contiguous run.
StrIn(q, s) ==
    \E off \in 0..(Len(s) - Len(q)) : SubSeq(s, off + 1, off + Len(q)) = q

\* A string of n copies of c.
Rep(c, n) == [i \in 1..n |-> c]

-----------------------------------------------------------------------------
(* The data source and the cached table *)

\* The texts the modelled data source holds.
Texts == {<<"A", "b">>, <<"b">>}

\* The texts and labels it holds in the concurrent specification.
ConcTexts == {<<"b">>}
ConcLabels == {0, 1}

\* Rows as load_dataset yields them: {"text": ..., "label": ...}.
RecordsOver(texts, labels) == [text : texts, label : labels]

\* All tables of at most n rows over the given rows.
TablesOver(records, n) == UNION {[1..k -> records] : k \in 0..n}

\* What one call of load_dataset("dair-ai/emotion", split="train") does: it
\* returns a table, or raises.
FetchFailure == [ok |-> FALSE, rows |-> <<>>]
Fetched(rows) == [ok |-> TRUE, rows |-> rows]
FetchOutcomes(tables) == {Fetched(rows) : rows \in tables} \cup {FetchFailure}

\* DATASET = None
None == [loaded |-> FALSE, id |-> 0, rows |-> <<>>]

\* The object a successful load_dataset call returns; id tells one returned
\* object from another.
Handle(rows, id) == [loaded |-> TRUE, id |-> id, rows |-> rows]

\* `DATASET is None` with the opposite answer: the table is fetched on every call.
DATASET_is_None_always(cache) == TRUE

\* `if not DATASET` for `if DATASET is None`: an empty table also counts as absent.
DATASET_is_falsy(cache) == ~cache.loaded \/ cache.rows = <<>>

\* The test of the lazy load, `if DATASET is None`.
DATASET_is_None(cache) == ~cache.loaded

\* _load_dataset whose failed fetch leaves an empty table behind in the cache.
_load_dataset_caching_failure(cache, fetched, id) ==
    IF DATASET_is_None(cache)
    THEN IF fetched.ok
         THEN [raised |-> FALSE, DATASET |-> Handle(fetched.rows, id),
               ret |-> Handle(fetched.rows, id)]
         ELSE [raised |-> TRUE, DATASET |-> Handle(<<>>, id), ret |-> None]
    ELSE [raised |-> FALSE, DATASET |-> cache, ret |-> cache]

\* _load_dataset(): the new value of the global, the value returned, and
\* whether the call raised.  The assignment happens only after load_dataset
\* has returned, so a raising fetch leaves the global as it was.
_load_dataset(cache, fetched, id) ==
    IF DATASET_is_None(cache)
    THEN IF fetched.ok
         THEN [raised |-> FALSE, DATASET |-> Handle(fetched.rows, id),
               ret |-> Handle(fetched.rows, id)]
         ELSE [raised |-> TRUE, DATASET |-> cache, ret |-> None]
    ELSE [raised |-> FALSE, DATASET |-> cache, ret |-> cache]

-----------------------------------------------------------------------------
(* What a tool returns *)

NoResult ==
    [kind |-> "none", error |-> "", samples |-> <<>>, emotion |-> "",
     query |-> <<>>, count |-> 0, total |-> 0, percentage |-> 0,
     distribution |-> <<>>]

\* json.dumps({"error": f"<prefix>: {e}"})
ErrorPayload(prefix) == [NoResult EXCEPT !.kind = "error", !.error = prefix]

\* The input model refused the arguments: pydantic raises ValidationError
\* while the model is built, before the tool is called.
ValidationError(field) ==
    [NoResult EXCEPT !.kind = "validation_error", !.error = field]

\* EMOTION_LABELS[label] raises KeyError unless this holds.
HasLabel(label) == label \in DOMAIN EMOTION_LABELS

\* {"text": item["text"], "emotion": EMOTION_LABELS[item["label"]], "label_id": item["label"]}
Sample(item) ==
    [text |-> item.text, emotion |-> EMOTION_LABELS[item.label],
     label_id |-> item.label]

\* round(x, 2) of the exact quotient num/den * 100, in hundredths: to the
\* nearest hundredth, a tie to the even one.
RoundHundredths(num, den) ==
    LET scaled == num * 10000
        q == scaled \div den
        r == scaled % den
    IN  IF 2 * r < den THEN q
        ELSE IF 2 * r > den THEN q + 1
        ELSE IF q % 2 = 0 THEN q ELSE q + 1

\* round((count / total * 100), 2) if total > 0 else 0
Percentage(count, total) == IF total > 0 THEN RoundHundredths(count, total) ELSE 0

-----------------------------------------------------------------------------
(* Tool 1: get_sample *)

\* random.choices in place of random.sample: k indices drawn with replacement.
random_sample_with_replacement(total, k) == [1..k -> 0..(total - 1)]

\* random.sample(range(total), k): every sequence of k distinct indices.
random_sample(total, k) ==
    {s \in [1..k -> 0..(total - 1)] : \A i, j \in 1..k : i # j => s[i] # s[j]}

Min(a, b) == IF a <= b THEN a ELSE b

\* The body of get_sample after the load, for the indices the draw produced.
get_sample_body(rows, indices) ==
    IF \E j \in 1..Len(indices) : ~HasLabel(rows[indices[j] + 1].label)
    THEN ErrorPayload("Failed to get samples")
    ELSE [NoResult EXCEPT
            !.kind = "result",
            !.samples = [j \in 1..Len(indices) |-> Sample(rows[indices[j] + 1])]]

-----------------------------------------------------------------------------
(* Tool 2: count_by_emotion *)

\* label_id = None
NoLabelId == -1

\* The loop started at the second key of the dict.
FindLabelIdFromSecondKey(emotion, i) ==
    LET hits == {k \in 2..Len(LabelKeys) : EMOTION_LABELS[LabelKeys[k]] = emotion}
    IN  IF hits = {} THEN NoLabelId
        ELSE LabelKeys[CHOOSE k \in hits : \A m \in hits : k <= m]

\* The loop over EMOTION_LABELS.items(): the first key whose name is the
\* emotion, or None.
RECURSIVE FindLabelId(_, _)
FindLabelId(emotion, i) ==
    IF i > Len(LabelKeys) THEN NoLabelId
    ELSE IF EMOTION_LABELS[LabelKeys[i]] = emotion THEN LabelKeys[i]
    ELSE FindLabelId(emotion, i + 1)

\* The counting scan with the first row left out.
RECURSIVE CountLabelSkippingFirst(_, _)
CountLabelSkippingFirst(rows, label_id) ==
    IF Len(rows) <= 1 THEN 0
    ELSE (IF rows[Len(rows)].label = label_id THEN 1 ELSE 0)
         + CountLabelSkippingFirst(SubSeq(rows, 1, Len(rows) - 1), label_id)

\* sum(1 for item in dataset if item["label"] == label_id)
RECURSIVE CountLabel(_, _)
CountLabel(rows, label_id) ==
    IF rows = <<>> THEN 0
    ELSE (IF Head(rows).label = label_id THEN 1 ELSE 0)
         + CountLabel(Tail(rows), label_id)

\* The body of count_by_emotion after the load.
count_by_emotion_body(rows, emotion) ==
    LET label_id == FindLabelId(emotion, 1)
        count == CountLabel(rows, label_id)
        total == Len(rows)
    IN  IF label_id = NoLabelId
        THEN ErrorPayload("Unknown emotion")
        ELSE [NoResult EXCEPT
                !.kind = "result", !.emotion = emotion, !.count = count,
                !.total = total, !.percentage = Percentage(count, total)]

-----------------------------------------------------------------------------
(* Tool 3: search_text *)

\* The test that ends the scan, off by one: `>` for `>=`.
LimitReachedLate(results, limit) == Len(results) > limit

\* if len(results) >= params.limit: break
LimitReached(results, limit) == Len(results) >= limit

\* The loop over the dataset from row i on: the results collected, and
\* whether EMOTION_LABELS[...] raised on a matching row.
RECURSIVE SearchScan(_, _, _, _, _)
SearchScan(rows, i, query_lower, limit, results) ==
    IF i > Len(rows) THEN [raised |-> FALSE, results |-> results]
    ELSE IF StrIn(query_lower, Lower(rows[i].text))
         THEN IF ~HasLabel(rows[i].label)
              THEN [raised |-> TRUE, results |-> results]
              ELSE LET more == Append(results, Sample(rows[i]))
                   IN  IF LimitReached(more, limit)
                       THEN [raised |-> FALSE, results |-> more]
                       ELSE SearchScan(rows, i + 1, query_lower, limit, more)
         ELSE SearchScan(rows, i + 1, query_lower, limit, results)

\* The body of search_text after the load.
search_text_body(rows, query, limit) ==
    LET scan == SearchScan(rows, 1, Lower(query), limit, <<>>)
    IN  IF scan.raised
        THEN ErrorPayload("Failed to search text")
        ELSE [NoResult EXCEPT
                !.kind = "result", !.query = query,
                !.count = Len(scan.results), !.samples = scan.results]

-----------------------------------------------------------------------------
(* Tool 4: analyze_emotion_distribution *)

\* {label: 0 for label in EMOTION_LABELS.values()}
ZeroCounts == [name \in {EMOTION_LABELS[k] : k \in DOMAIN EMOTION_LABELS} |-> 0]

\* The counting loop; raised when a row's label is no key of EMOTION_LABELS.
RECURSIVE CountEmotions(_, _, _)
CountEmotions(rows, i, emotion_counts) ==
    IF i > Len(rows) THEN [raised |-> FALSE, counts |-> emotion_counts]
    ELSE IF ~HasLabel(rows[i].label)
         THEN [raised |-> TRUE, counts |-> emotion_counts]
         ELSE LET emotion_name == EMOTION_LABELS[rows[i].label]
              IN  CountEmotions(rows, i + 1,
                      [emotion_counts EXCEPT ![emotion_name] = @ + 1])

\* emotion_counts.items(): (name, count) pairs in the dict's insertion order.
Items(emotion_counts) ==
    [i \in 1..Len(LabelKeys) |->
        <<EMOTION_LABELS[LabelKeys[i]], emotion_counts[EMOTION_LABELS[LabelKeys[i]]]>>]

\* str.__lt__ on two emotion names, read letter by letter.
RECURSIVE LettersLess(_, _)
LettersLess(s, t) ==
    IF t = <<>> THEN FALSE
    ELSE IF s = <<>> THEN TRUE
    ELSE IF Head(s) # Head(t) THEN Head(s) < Head(t)
    ELSE LettersLess(Tail(s), Tail(t))

\* A sort key that orders the pairs by count, largest first.
ItemLessByCount(x, y) == x[2] > y[2]

\* tuple.__lt__ on two (name, count) pairs: by name, then by count.
ItemLess(x, y) ==
    \/ LettersLess(NameLetters[x[1]], NameLetters[y[1]])
    \/ x[1] = y[1] /\ x[2] < y[2]

\* Insertion of x into a sorted sequence, after the elements not greater than it.
RECURSIVE InsertSorted(_, _)
InsertSorted(x, sorted) ==
    IF sorted = <<>> THEN <<x>>
    ELSE IF ItemLess(x, Head(sorted)) THEN <<x>> \o sorted
    ELSE <<Head(sorted)>> \o InsertSorted(x, Tail(sorted))

\* sorted(items): a stable sort.
RECURSIVE Sorted(_)
Sorted(items) ==
    IF items = <<>> THEN <<>>
    ELSE InsertSorted(items[Len(items)], Sorted(SubSeq(items, 1, Len(items) - 1)))

\* The body of analyze_emotion_distribution after the load.
analyze_emotion_distribution_body(rows) ==
    LET counted == CountEmotions(rows, 1, ZeroCounts)
        total == Len(rows)
        ordered == Sorted(Items(counted.counts))
    IN  IF counted.raised
        THEN ErrorPayload("Failed to analyze distribution")
        ELSE [NoResult EXCEPT
                !.kind = "result", !.total = total,
                !.distribution =
                    [i \in 1..Len(ordered) |->
                        [emotion |-> ordered[i][1], count |-> ordered[i][2],
                         percentage |-> Percentage(ordered[i][2], total)]]]

-----------------------------------------------------------------------------
(* Requests and their input models *)

Request(op, n, emotion, query, limit) ==
    [op |-> op, n |-> n, emotion |-> emotion, query |-> query, limit |-> limit]

NoRequest == Request("", 0, "", <<>>, 0)

\* GetSampleInput with the upper bound of n left out.
GetSampleInputNoUpperBound(n) == n >= MinN

\* GetSampleInput: n with ge=1, le=100.
GetSampleInput(n) == n >= MinN /\ n <= MaxN

\* CountByEmotionInput: emotion is a member of EmotionType.
CountByEmotionInput(emotion) == emotion \in EmotionType

\* SearchTextInput: query (stripped first) with min_length=1, max_length=200;
\* limit with ge=1, le=100.
SearchTextInput(query, limit) ==
    /\ Len(Strip(query)) >= MinQueryLen
    /\ Len(Strip(query)) <= MaxQueryLen
    /\ limit >= MinLimit
    /\ limit <= MaxLimit

\* Whether the tool's input model can be built from the raw arguments.
Accepted(r) ==
    CASE r.op = "get_sample" -> GetSampleInput(r.n)
      [] r.op = "count_by_emotion" -> CountByEmotionInput(r.emotion)
      [] r.op = "search_text" -> SearchTextInput(r.query, r.limit)
      [] OTHER -> TRUE

\* The input model's fields: the query is stored stripped.
Validated(r) == [r EXCEPT !.query = Strip(r.query)]

\* The arguments the modelled callers pass.
SampleSizes == {MinN - 1, MinN, MinN + 1, MaxN, MaxN + 1}
EmotionArgs == EmotionType \cup {"excited"}
QueryArgs ==
    {<<>>, <<" ">>, <<"a">>, <<" ", "B", " ">>, <<"b", "b">>,
     Rep("a", MaxQueryLen), Rep("a", MaxQueryLen + 1)}
LimitArgs == {MinLimit - 1, MinLimit, MinLimit + 1, MaxLimit, MaxLimit + 1}

Requests ==
    {Request("get_sample", n, "", <<>>, 0) : n \in SampleSizes}
    \cup {Request("count_by_emotion", 0, e, <<>>, 0) : e \in EmotionArgs}
    \cup {Request("search_text", 0, "", q, l) : q \in QueryArgs, l \in LimitArgs}
    \cup {Request("analyze_emotion_distribution", 0, "", <<>>, 0)}

\* The requests of the concurrent specification.
ConcRequests ==
    {r \in Requests :
        /\ r.n \in {0, MinN}
        /\ r.emotion \in {"", "sadness", "joy", "surprise", "excited"}
        /\ r.query \in {<<>>, <<" ", "B", " ">>}
        /\ r.limit \in {0, MinLimit}
        /\ r.op = "search_text" => Accepted(r)}

-----------------------------------------------------------------------------
(* The state machine *)

Tasks == 1..NumTasks

\* Labels the dair-ai/emotion source yields, and one it must never yield.
ValidLabels == DOMAIN EMOTION_LABELS
FaultyLabels == ValidLabels \cup {Len(LabelKeys)}

Tables == TablesOver(RecordsOver(Texts, ValidLabels), MaxRows)
ConcTables == TablesOver(RecordsOver(ConcTexts, ConcLabels), ConcRows)
FaultyTables == TablesOver(RecordsOver(Texts, FaultyLabels), MaxRows)

\* The state after the module is imported: DATASET = None, nothing invoked.
Init ==
    /\ DATASET = None
    /\ pc = [t \in Tasks |-> "idle"]
    /\ req = [t \in Tasks |-> NoRequest]
    /\ params = [t \in Tasks |-> NoRequest]
    /\ dataset = [t \in Tasks |-> None]
    /\ result = [t \in Tasks |-> NoResult]
    /\ attempt = [t \in Tasks |-> "none"]
    /\ first_time = [t \in Tasks |-> FALSE]
    /\ loads = 0

\* The host receives a call of a tool with raw arguments r and builds the
\* tool's input model.  If that fails the tool is never called; otherwise
\* the coroutine is scheduled.
Invoke(t, r) ==
    /\ pc[t] = "idle"
    /\ req' = [req EXCEPT ![t] = r]
    /\ IF Accepted(r)
       THEN /\ pc' = [pc EXCEPT ![t] = "pending"]
            /\ params' = [params EXCEPT ![t] = Validated(r)]
            /\ result' = result
       ELSE /\ pc' = [pc EXCEPT ![t] = "done"]
            /\ params' = params
            /\ result' = [result EXCEPT ![t] = ValidationError(r.op)]
    /\ first_time' = [first_time EXCEPT ![t] = (DATASET = None)]
    /\ UNCHANGED <<DATASET, dataset, attempt, loads>>

\* What the call of load_dataset made by the next tool to run can do; when
\* the tool makes no such call the value is not read.
Fetch(tables) ==
    IF DATASET_is_None(DATASET) THEN FetchOutcomes(tables) ELSE {FetchFailure}

\* The end of a tool body: ld is what _load_dataset did, res what the tool returns.
Finish(t, ld, res) ==
    /\ DATASET' = ld.DATASET
    /\ dataset' = [dataset EXCEPT ![t] = ld.ret]
    /\ result' = [result EXCEPT ![t] = res]
    /\ attempt' = [attempt EXCEPT ![t] =
                      IF ~DATASET_is_None(DATASET) THEN "none"
                      ELSE IF ld.raised THEN "failed" ELSE "ok"]
    /\ loads' = IF DATASET_is_None(DATASET) /\ ~ld.raised THEN loads + 1 ELSE loads
    /\ pc' = [pc EXCEPT ![t] = "done"]
    /\ UNCHANGED <<req, params, first_time>>

get_sample(t, fetched) ==
    /\ pc[t] = "pending"
    /\ params[t].op = "get_sample"
    /\ LET ld == _load_dataset(DATASET, fetched, loads + 1)
       IN  IF ld.raised
           THEN Finish(t, ld, ErrorPayload("Failed to get samples"))
           ELSE LET total_size == Len(ld.ret.rows)
                IN  \E indices \in random_sample(total_size, Min(params[t].n, total_size)) :
                        Finish(t, ld, get_sample_body(ld.ret.rows, indices))

count_by_emotion(t, fetched) ==
    /\ pc[t] = "pending"
    /\ params[t].op = "count_by_emotion"
    /\ LET ld == _load_dataset(DATASET, fetched, loads + 1)
       IN  IF ld.raised
           THEN Finish(t, ld, ErrorPayload("Failed to count by emotion"))
           ELSE Finish(t, ld, count_by_emotion_body(ld.ret.rows, params[t].emotion))

search_text(t, fetched) ==
    /\ pc[t] = "pending"
    /\ params[t].op = "search_text"
    /\ LET ld == _load_dataset(DATASET, fetched, loads + 1)
       IN  IF ld.raised
           THEN Finish(t, ld, ErrorPayload("Failed to search text"))
           ELSE Finish(t, ld, search_text_body(ld.ret.rows, params[t].query, params[t].limit))

analyze_emotion_distribution(t, fetched) ==
    /\ pc[t] = "pending"
    /\ params[t].op = "analyze_emotion_distribution"
    /\ LET ld == _load_dataset(DATASET, fetched, loads + 1)
       IN  IF ld.raised
           THEN Finish(t, ld, ErrorPayload("Failed to analyze distribution"))
           ELSE Finish(t, ld, analyze_emotion_distribution_body(ld.ret.rows))

\* The caller has taken the returned string; the slot is free again.
Return(t) ==
    /\ pc[t] = "done"
    /\ pc' = [pc EXCEPT ![t] = "idle"]
    /\ req' = [req EXCEPT ![t] = NoRequest]
    /\ params' = [params EXCEPT ![t] = NoRequest]
    /\ dataset' = [dataset EXCEPT ![t] = None]
    /\ result' = [result EXCEPT ![t] = NoResult]
    /\ attempt' = [attempt EXCEPT ![t] = "none"]
    /\ first_time' = [first_time EXCEPT ![t] = FALSE]
    /\ UNCHANGED <<DATASET, loads>>

\* Concurrent invocations: every slot may hold a pending coroutine.
Next ==
    \E t \in Tasks :
        \/ \E r \in ConcRequests : Invoke(t, r)
        \/ \E fetched \in Fetch(ConcTables) : get_sample(t, fetched)
        \/ \E fetched \in Fetch(ConcTables) : count_by_emotion(t, fetched)
        \/ \E fetched \in Fetch(ConcTables) : search_text(t, fetched)
        \/ \E fetched \in Fetch(ConcTables) : analyze_emotion_distribution(t, fetched)
        \/ Return(t)

Spec == Init /\ [][Next]_vars

\* One invocation at a time, every request, every table of valid rows.
NextSeq ==
    \/ \E r \in Requests : Invoke(1, r)
    \/ \E fetched \in Fetch(Tables) : get_sample(1, fetched)
    \/ \E fetched \in Fetch(Tables) : count_by_emotion(1, fetched)
    \/ \E fetched \in Fetch(Tables) : search_text(1, fetched)
    \/ \E fetched \in Fetch(Tables) : analyze_emotion_distribution(1, fetched)
    \/ Return(1)

SpecSeq == Init /\ [][NextSeq]_vars

\* One invocation at a time over a source that may also yield a row whose
\* label is no key of EMOTION_LABELS.
NextFaulty ==
    \/ \E r \in Requests : Invoke(1, r)
    \/ \E fetched \in Fetch(FaultyTables) : get_sample(1, fetched)
    \/ \E fetched \in Fetch(FaultyTables) : count_by_emotion(1, fetched)
    \/ \E fetched \in Fetch(FaultyTables) : search_text(1, fetched)
    \/ \E fetched \in Fetch(FaultyTables) : analyze_emotion_distribution(1, fetched)
    \/ Return(1)

SpecFaulty == Init /\ [][NextFaulty]_vars

-----------------------------------------------------------------------------
(* Properties *)

\* A tool ran to its end on a table it obtained (its load, if any, did not fail).
Ran(t, op) == pc[t] = "done" /\ params[t].op = op /\ dataset[t].loaded

\* Every row of the table carries a label of the mapping.
LabelsValid(rows) == \A i \in 1..Len(rows) : rows[i].label \in 0..5

\* The rows whose label maps to emotion e.
RowsOf(rows, e) ==
    {i \in 1..Len(rows) : rows[i].label \in 0..5 /\ EMOTION_LABELS[rows[i].label] = e}

\* p (in hundredths) is count/total*100 rounded to two decimals, or 0 for an
\* empty table.
IsPercentage(p, count, total) ==
    IF total > 0
    THEN /\ 2 * (p * total - count * 10000) <= total
         /\ 2 * (count * 10000 - p * total) <= total
    ELSE p = 0

\* C1: however the invocations of the four tools interleave, load_dataset
\* completes successfully at most once, and every invocation that obtains the
\* table obtains the one cached object, the whole table that load returned.
C1_LoadAtMostOnce ==
    /\ loads <= 1
    /\ DATASET.loaded => loads = 1 /\ DATASET.id = 1
    /\ \A t \in Tasks :
        /\ dataset[t].loaded => dataset[t] = DATASET
        /\ pc[t] = "done" /\ result[t].kind = "result" => dataset[t].loaded

\* Two invocations, both scheduled while DATASET was still None and so both
\* pending at once, have run to their end on the table; the first one loaded
\* it, the other found it cached.
C1_Witness ==
    \E t1, t2 \in Tasks :
        /\ t1 # t2
        /\ first_time[t1] /\ first_time[t2]
        /\ Ran(t1, "get_sample") /\ attempt[t1] = "ok"
        /\ Ran(t2, "analyze_emotion_distribution") /\ attempt[t2] = "none"

\* C2: a tool whose load fails returns an error payload and leaves DATASET
\* None; a tool that runs while DATASET is None attempts the load (again);
\* and a tool whose load succeeds returns a normal result.
C2_LoadFailureIsRetried ==
    [][\A t \in Tasks :
          pc[t] = "pending" /\ pc'[t] = "done" =>
              /\ ~DATASET.loaded => attempt'[t] \in {"ok", "failed"}
              /\ attempt'[t] = "failed" =>
                    result'[t].kind = "error" /\ DATASET' = None
              /\ attempt'[t] = "ok" =>
                    result'[t].kind = "result" /\ DATASET'.loaded]_vars

\* One invocation's load failed and it returned an error payload; another
\* invocation then loaded the table and returned a result.
C2_Witness ==
    \E t1, t2 \in Tasks :
        /\ pc[t1] = "done" /\ attempt[t1] = "failed" /\ result[t1].kind = "error"
        /\ pc[t2] = "done" /\ attempt[t2] = "ok" /\ result[t2].kind = "result"

\* C3: get_sample with 1 <= n <= 100 on a loaded table of total_size rows
\* returns exactly min(n, total_size) items at pairwise distinct indices, each
\* item the text and label of its row with the mapping's name for the label;
\* on the empty table it returns the empty list, not an error.
C3_SampleIsDistinctRows ==
    \A t \in Tasks :
        Ran(t, "get_sample") =>
            LET rows == dataset[t].rows
                total_size == Len(rows)
                n == params[t].n
                k == IF n <= total_size THEN n ELSE total_size
                samples == result[t].samples
            IN  /\ n >= 1 /\ n <= 100
                /\ result[t].kind = "result"
                /\ Len(samples) = k
                /\ \E f \in [1..k -> 1..total_size] :
                      /\ \A i, j \in 1..k : i # j => f[i] # f[j]
                      /\ \A j \in 1..k :
                            /\ samples[j].text = rows[f[j]].text
                            /\ samples[j].label_id = rows[f[j]].label
                            /\ samples[j].emotion = EMOTION_LABELS[samples[j].label_id]

\* get_sample returned n = 1 item of a two-row table.
C3_Witness ==
    \E t \in Tasks :
        /\ Ran(t, "get_sample")
        /\ params[t].n = 1
        /\ Len(dataset[t].rows) = 2
        /\ Len(result[t].samples) = 1

\* C4: count_by_emotion(e) returns as count the number of rows whose label
\* maps to e and as total the number of rows; percentage is
\* round(count/total*100, 2), or 0 on the empty table; and the six counts add
\* up to total.
C4_CountIsRowsOfEmotion ==
    /\ \A t \in Tasks :
          Ran(t, "count_by_emotion") =>
              LET rows == dataset[t].rows
              IN  /\ result[t].kind = "result"
                  /\ result[t].emotion = params[t].emotion
                  /\ result[t].count = Cardinality(RowsOf(rows, params[t].emotion))
                  /\ result[t].total = Len(rows)
                  /\ IsPercentage(result[t].percentage, result[t].count, result[t].total)
    /\ DATASET.loaded =>
          count_by_emotion_body(DATASET.rows, "sadness").count
          + count_by_emotion_body(DATASET.rows, "joy").count
          + count_by_emotion_body(DATASET.rows, "love").count
          + count_by_emotion_body(DATASET.rows, "anger").count
          + count_by_emotion_body(DATASET.rows, "fear").count
          + count_by_emotion_body(DATASET.rows, "surprise").count
          = Len(DATASET.rows)

\* count_by_emotion("joy") returned count 1 of total 2, 50.0 percent.
C4_Witness ==
    \E t \in Tasks :
        /\ Ran(t, "count_by_emotion")
        /\ params[t].emotion = "joy"
        /\ result[t].count = 1
        /\ result[t].total = 2
        /\ result[t].percentage = 5000

\* Text s contains q when case is ignored.
ContainsIgnoringCase(s, q) ==
    \E off \in 0..(Len(s) - Len(q)) :
        \A i \in 1..Len(q) : LowerChar(s[off + i]) = LowerChar(q[i])

\* C5: search_text returns exactly the first min(limit, number of matches)
\* rows, in stored order, whose text contains the query case-insensitively:
\* no more than limit, no row that does not match, no earlier match skipped,
\* and count is the number of results.
C5_SearchIsPrefixOfMatches ==
    \A t \in Tasks :
        Ran(t, "search_text") =>
            LET rows == dataset[t].rows
                query == params[t].query
                matches == {i \in 1..Len(rows) : ContainsIgnoringCase(rows[i].text, query)}
                k == IF params[t].limit <= Cardinality(matches)
                     THEN params[t].limit ELSE Cardinality(matches)
                results == result[t].samples
            IN  /\ result[t].kind = "result"
                /\ result[t].count = Len(results)
                /\ Len(results) = k
                /\ \A j \in 1..k :
                      \E i \in matches :
                          /\ Cardinality({m \in matches : m <= i}) = j
                          /\ results[j].text = rows[i].text
                          /\ results[j].label_id = rows[i].label
                          /\ results[j].emotion = EMOTION_LABELS[rows[i].label]

\* search_text("B", limit=1) stopped after the first of two rows that both
\* match once case is ignored.
C5_Witness ==
    \E t \in Tasks :
        /\ Ran(t, "search_text")
        /\ params[t].query = <<"B">>
        /\ params[t].limit = 1
        /\ Len(dataset[t].rows) = 2
        /\ result[t].count = 1

\* The emotion names in ascending order.
NamesAscending == <<"anger", "fear", "joy", "love", "sadness", "surprise">>

\* C6: on a loaded table whose labels are all in 0..5 (the empty table and
\* tables without some emotion included) analyze_emotion_distribution returns
\* exactly six entries, one per emotion, in the order anger, fear, joy, love,
\* sadness, surprise, each with the number of rows of that emotion, and
\* total_samples is the sum of the six counts.
C6_DistributionIsSixSortedCounts ==
    \A t \in Tasks :
        Ran(t, "analyze_emotion_distribution") /\ LabelsValid(dataset[t].rows) =>
            LET rows == dataset[t].rows
                distribution == result[t].distribution
            IN  /\ result[t].kind = "result"
                /\ Len(distribution) = 6
                /\ \A i \in 1..6 :
                      /\ distribution[i].emotion = NamesAscending[i]
                      /\ distribution[i].count = Cardinality(RowsOf(rows, NamesAscending[i]))
                /\ result[t].total =
                      distribution[1].count + distribution[2].count
                      + distribution[3].count + distribution[4].count
                      + distribution[5].count + distribution[6].count

\* analyze_emotion_distribution ran on a two-row table holding joy twice, so
\* that five emotions have count 0 and ordering by count would differ.
C6_Witness ==
    \E t \in Tasks :
        /\ Ran(t, "analyze_emotion_distribution")
        /\ result[t].kind = "result"
        /\ result[t].total = 2
        /\ result[t].distribution[3].count = 2

\* The violation of a Field constraint, as the contract states it.
ConstraintViolated(r) ==
    \/ r.op = "get_sample" /\ (r.n < 1 \/ r.n > 100)
    \/ r.op = "count_by_emotion"
       /\ r.emotion \notin {"sadness", "joy", "love", "anger", "fear", "surprise"}
    \/ r.op = "search_text"
       /\ \/ \A i \in 1..Len(r.query) : r.query[i] = " "
          \/ Len(r.query) > 200
          \/ r.limit < 1
          \/ r.limit > 100

\* C7: a request whose parameter violates its constraint is rejected before
\* any data access: the tool does not run, no load is triggered and the cache
\* is left as it was; every other request, the boundary values n = 1,
\* n = 100, limit = 1, limit = 100 among them, is accepted and scheduled.
C7_RejectedBeforeDataAccess ==
    [][\A t \in Tasks :
          /\ pc[t] = "idle" /\ pc'[t] # "idle" =>
                IF ConstraintViolated(req'[t])
                THEN /\ pc'[t] = "done"
                     /\ result'[t].kind = "validation_error"
                     /\ attempt'[t] = "none"
                     /\ ~dataset'[t].loaded
                     /\ DATASET' = DATASET
                     /\ loads' = loads
                ELSE pc'[t] = "pending"
          /\ pc[t] = "pending" /\ pc'[t] # "pending" => ~ConstraintViolated(req[t])]_vars

\* get_sample(n=101) was rejected while the table was loaded.
C7_Witness ==
    \E t \in Tasks :
        /\ pc[t] = "done"
        /\ req[t].op = "get_sample"
        /\ req[t].n = 101
        /\ result[t].kind = "validation_error"
        /\ DATASET.loaded

\* C8: every invocation ends with a complete result or an error payload
\* (a refusal by the input model is counted as an error here), and when the
\* table holds a row whose label is no key of the mapping, count_by_emotion
\* and analyze_emotion_distribution, which read every row, report it as an
\* error payload.
C8_UnknownLabelIsReported ==
    \A t \in Tasks :
        pc[t] = "done" =>
            /\ result[t].kind \in {"result", "error", "validation_error"}
            /\ result[t].kind # "result" =>
                  /\ result[t].samples = <<>>
                  /\ result[t].distribution = <<>>
            /\ (/\ params[t].op \in {"count_by_emotion", "analyze_emotion_distribution"}
                /\ dataset[t].loaded
                /\ ~LabelsValid(dataset[t].rows))
               => result[t].kind = "error"

\* C9: once the table is loaded no step changes it, and any two completed
\* calls of count_by_emotion with the same emotion, or of
\* analyze_emotion_distribution, hold the same result, whatever ran between them.
C9_RepeatedCallsAgree ==
    [][/\ DATASET.loaded => DATASET' = DATASET
       /\ \A t1, t2 \in Tasks :
             (/\ pc'[t1] = "done" /\ pc'[t2] = "done"
              /\ params'[t1].op \in {"count_by_emotion", "analyze_emotion_distribution"}
              /\ params'[t1] = params'[t2]
              /\ result'[t1].kind = "result" /\ result'[t2].kind = "result")
             => result'[t1] = result'[t2]]_vars

\* Two completed calls of count_by_emotion("joy") on a table holding joy.
C9_Witness ==
    \E t1, t2 \in Tasks :
        /\ t1 # t2
        /\ Ran(t1, "count_by_emotion") /\ Ran(t2, "count_by_emotion")
        /\ params[t1].emotion = "joy" /\ params[t2].emotion = "joy"
        /\ result[t1].count = 1 /\ result[t2].count = 1

\* The entry of emotion e in a distribution.
EntryOf(distribution, e) ==
    CHOOSE entry \in {distribution[i] : i \in 1..Len(distribution)} : entry.emotion = e

\* C10: on a loaded table whose labels are all in 0..5, for every emotion e
\* the count and total of count_by_emotion(e) are the count of e's entry and
\* the total_samples of analyze_emotion_distribution(); and count_by_emotion
\* never returns the "Unknown emotion" error.
C10_CountAgreesWithDistribution ==
    /\ \A t \in Tasks : pc[t] = "done" => result[t].error # "Unknown emotion"
    /\ DATASET.loaded /\ LabelsValid(DATASET.rows) =>
          LET analysis == analyze_emotion_distribution_body(DATASET.rows)
          IN  \A e \in {"sadness", "joy", "love", "anger", "fear", "surprise"} :
                  LET counted == count_by_emotion_body(DATASET.rows, e)
                  IN  /\ counted.kind = "result"
                      /\ analysis.kind = "result"
                      /\ counted.count = EntryOf(analysis.distribution, e).count
                      /\ counted.total = analysis.total

\* count_by_emotion("sadness") returned a count of 1 on a table of valid rows.
C10_Witness ==
    \E t \in Tasks :
        /\ Ran(t, "count_by_emotion")
        /\ LabelsValid(dataset[t].rows)
        /\ params[t].emotion = "sadness"
        /\ result[t].kind = "result"
        /\ result[t].count = 1
        /\ result[t].total = 2

=============================================================================
